---------------------------- MODULE Spec2Model ----------------------------
(***************************************************************************)
(* A model of rwlog: the sender Logger (bounded crossbeam channel plus one *)
(* worker thread per logger, src/src/lib.rs), the wire codec v1            *)
(* (src/src/protocol.rs) and the receiver Logger (src/src/receiver.rs).    *)
(*                                                                         *)
(* Spec        the sender Logger: producer handles (the original and its   *)
(*             clones), the channel, the worker.                           *)
(* FilterSpec  the sender Logger with one handle, logging at every one of  *)
(*             the five levels.                                            *)
(* LifeSpec    the sender Logger without rel_fatal!, with the worker       *)
(*             thread scheduled fairly.                                    *)
(* LevelSpec   the sender Logger with set_level called on the original     *)
(*             handle and on a clone.                                      *)
(* NetSpec     the codec and the receiver Logger: encoder calls, datagrams *)
(*             on the socket, the polling thread, the application's pulls  *)
(*             and the drop of the receiver Logger.                        *)
(* LongSpec    the encoder on messages with strings of up to 65537 bytes.  *)
(***************************************************************************)
EXTENDS Integers, Sequences, FiniteSets, TLC

(***************************************************************************)
(* Bounds of the model.                                                    *)
(***************************************************************************)
\* Capacity of the bounded channels.  The source sets 1024 (lib.rs:18,
\* receiver.rs:12); the model keeps the capacity small so that a full queue
\* is reached.
MESSAGE_BUFFER_SIZE == 2
\* Number of producer handles (the original Logger and its clones).
NumHandles == 2
\* Number of logging-macro calls over all handles.
MaxSends == 3

(***************************************************************************)
(* enum Level (lib.rs:22-33, protocol.rs:13-24): the discriminants, which  *)
(* derive(PartialOrd) orders and `as u8` yields.                           *)
(***************************************************************************)
Trace == 0
Information == 1
Warning == 2
Error == 3
Fatal == 4

Level == {Trace, Information, Warning, Error, Fatal}

\* The levels the handles of Spec log at: rel_trace!, rel_warn!, rel_fatal!
\* (rel_info! and rel_err! differ from rel_warn! in the level alone, and
\* FilterSpec logs at all five).
SentLevels == {Trace, Warning, Fatal}

\* enum Target (lib.rs:37-44); Target::Network is todo!() in Logger::new.
Target == {"Console", "File"}

Handles == 1..NumHandles

\* A Message as the sender sees it (lib.rs:61-74).  The call site's text,
\* file, line and timestamp are stood for by the handle that logged it and
\* the position of the call among that handle's calls.
Message == [level : Level, handle : Handles, seq : 1..MaxSends]

VARIABLES
    target,       \* the Target given to Logger::new
    workerLevel,  \* the `level` moved into the worker closure
    hState,       \* per handle: "none", "idle", "blocked", "exiting",
                  \*             "panicked", "dropped"
    hSent,        \* per handle: number of macro calls made
    hPending,     \* per handle: the message of a send blocked on a full queue
    queue,        \* the channel's buffer
    workerPc,     \* "start", "recv", "render", "stopped", "panicked"
    workerMsg,    \* the message the worker holds between recv and render
    sink,         \* the lines written to stdout / log.txt
    consumed,     \* history: the messages the worker received, in order
    writeFailed,  \* history: the messages whose writeln! returned Err
    procExited,   \* std::process::exit(1) has run
    hLevel,       \* per handle: the `level` field of the handle's Logger
    queuedAtDrop, \* history: the buffer when the last Sender was dropped
    encPc,        \* the thread calling send_message_v1: "idle", "panicked"
    wire,         \* the datagram waiting at the receiver's socket, if any
    rxLevel,      \* the `level` moved into the polling closure
    rxQueue,      \* the receiver Logger's channel buffer
    pollPc,       \* the polling thread: "poll", "blocked", "panicked"
                  \* (its loop has no way to "stopped")
    pollPending,  \* the message of the polling thread's blocked send
    lastOp,       \* history: the latest codec or receiver operation
    rxDropped     \* every handle of the receiver Logger was dropped

senderVars == <<target, workerLevel, hState, hSent, hPending, queue, workerPc,
                workerMsg, sink, consumed, writeFailed, procExited, hLevel,
                queuedAtDrop>>

netVars == <<encPc, wire, rxLevel, rxQueue, pollPc, pollPending, lastOp,
             rxDropped>>

vars == <<senderVars, netVars>>

NoMessage == [level |-> Trace, handle |-> 0, seq |-> 0]

TotalSent == LET RECURSIVE Sum(_)
                 Sum(h) == IF h = 0 THEN 0 ELSE hSent[h] + Sum(h - 1)
             IN  Sum(NumHandles)

(***************************************************************************)
(* The channel (crossbeam bounded, lib.rs:91).                             *)
(***************************************************************************)
\* The Receiver lives in the worker closure: it is dropped when the worker
\* returns or panics.
ReceiverDropped == workerPc \in {"stopped", "panicked"}

\* A channel that reports the disconnection as soon as one Sender was
\* dropped.
SendersDroppedEarly == \E h \in Handles : hState[h] = "dropped"

\* A Sender is held by every handle that exists and was not dropped.
SendersDropped == \A h \in Handles : hState[h] \in {"none", "dropped"}

\* A channel that lets one message more than its capacity in.
ChannelFullOffByOne == Len(queue) > MESSAGE_BUFFER_SIZE

ChannelFull == Len(queue) >= MESSAGE_BUFFER_SIZE

\* A channel that puts the message at the front of the buffer.
EnqueueAtFront(q, m) == <<m>> \o q

\* Sender::send puts the message at the back of the buffer.
Enqueue(q, m) == Append(q, m)

\* Receiver::recv takes the message at the front of the buffer.
DequeueMsg(q) == Head(q)

\* A recv that leaves the message it returns in the buffer.
DequeueKeeps(q) == q

DequeueRest(q) == Tail(q)

(***************************************************************************)
(* The worker's filter and rendering (lib.rs:103-155, 172-185).            *)
(***************************************************************************)
\* A filter that also drops the messages at the threshold itself.
PassesAboveOnly(m, threshold) == m.level > threshold

Passes(m, threshold) == m.level >= threshold

\* The colour escape the console worker opens the line with.
Colour(l) == CASE l = Trace       -> "0m"
               [] l = Information -> "32m"
               [] l = Warning     -> "33m"
               [] l = Error       -> "31m"
               [] l = Fatal       -> "35m"

\* One rendered line: [<level as u8>] - <timestamp> (<file>(<line>)) <text>
FormatLine(m, t) ==
    [colour |-> IF t = "Console" THEN Colour(m.level) ELSE "",
     level  |-> m.level,
     handle |-> m.handle,
     seq    |-> m.seq]

(***************************************************************************)
(* Init: the state when Logger::new has returned (lib.rs:90-195).          *)
(***************************************************************************)
SenderInit(thresholds) ==
    /\ target \in Target
    /\ workerLevel \in thresholds
    /\ hState = [h \in Handles |-> IF h = 1 THEN "idle" ELSE "none"]
    /\ hSent = [h \in Handles |-> 0]
    /\ hPending = [h \in Handles |-> NoMessage]
    /\ queue = <<>>
    /\ workerPc = IF target = "File" THEN "start" ELSE "recv"
    /\ workerMsg = NoMessage
    /\ sink = <<>>
    /\ consumed = <<>>
    /\ writeFailed = <<>>
    /\ procExited = FALSE
    /\ hLevel = [h \in Handles |-> workerLevel]
    /\ queuedAtDrop = <<>>

\* What a handle does once its send has completed: rel_fatal! goes on to
\* sleep and exit (lib.rs:350-352), the other macros return.
AfterSend(l) == IF l = Fatal THEN "exiting" ELSE "idle"

\* rel_trace! .. rel_fatal! (lib.rs:216-354): build the message and call
\* channel.send(msg).expect("Logger thread unreachable.").
RelLog(h, l) ==
    /\ UNCHANGED <<netVars, hLevel, queuedAtDrop>>
    /\ ~procExited
    /\ hState[h] = "idle"
    /\ TotalSent < MaxSends
    /\ LET m == [level |-> l, handle |-> h, seq |-> hSent[h] + 1] IN
       /\ hSent' = [hSent EXCEPT ![h] = @ + 1]
       /\ IF ReceiverDropped
          THEN /\ hState' = [hState EXCEPT ![h] = "panicked"]
               /\ UNCHANGED <<queue, hPending>>
          ELSE IF ChannelFull
          THEN /\ hState' = [hState EXCEPT ![h] = "blocked"]
               /\ hPending' = [hPending EXCEPT ![h] = m]
               /\ UNCHANGED queue
          ELSE /\ queue' = Enqueue(queue, m)
               /\ hState' = [hState EXCEPT ![h] = AfterSend(l)]
               /\ UNCHANGED hPending
    /\ UNCHANGED <<target, workerLevel, workerPc, workerMsg, sink, consumed,
                   writeFailed, procExited>>

\* A blocked send that does not wait for a free slot: it puts its message
\* into the buffer whatever the buffer holds.
SendWakeOverflows(h) ==
    /\ UNCHANGED <<netVars, hLevel, queuedAtDrop>>
    /\ ~procExited
    /\ hState[h] = "blocked"
    /\ IF ReceiverDropped
       THEN /\ hState' = [hState EXCEPT ![h] = "panicked"]
            /\ UNCHANGED queue
       ELSE /\ queue' = Enqueue(queue, hPending[h])
            /\ hState' = [hState EXCEPT ![h] = AfterSend(hPending[h].level)]
    /\ hPending' = [hPending EXCEPT ![h] = NoMessage]
    /\ UNCHANGED <<target, workerLevel, hSent, workerPc, workerMsg, sink,
                   consumed, writeFailed, procExited>>

\* A blocked send that is not told of the receiver's death: it waits for a
\* free slot and then puts its message into the buffer.
SendWakeIgnoresDeath(h) ==
    /\ UNCHANGED <<netVars, hLevel, queuedAtDrop>>
    /\ ~procExited
    /\ hState[h] = "blocked"
    /\ ~ChannelFull
    /\ queue' = Enqueue(queue, hPending[h])
    /\ hState' = [hState EXCEPT ![h] = AfterSend(hPending[h].level)]
    /\ hPending' = [hPending EXCEPT ![h] = NoMessage]
    /\ UNCHANGED <<target, workerLevel, hSent, workerPc, workerMsg, sink,
                   consumed, writeFailed, procExited>>

\* A send blocked on a full queue wakes: a slot was freed, or the receiver
\* was dropped and send returns Err, which expect turns into a panic.
SendWake(h) ==
    /\ UNCHANGED <<netVars, hLevel, queuedAtDrop>>
    /\ ~procExited
    /\ hState[h] = "blocked"
    /\ ReceiverDropped \/ ~ChannelFull
    /\ IF ReceiverDropped
       THEN /\ hState' = [hState EXCEPT ![h] = "panicked"]
            /\ UNCHANGED queue
       ELSE /\ queue' = Enqueue(queue, hPending[h])
            /\ hState' = [hState EXCEPT ![h] = AfterSend(hPending[h].level)]
    /\ hPending' = [hPending EXCEPT ![h] = NoMessage]
    /\ UNCHANGED <<target, workerLevel, hSent, workerPc, workerMsg, sink,
                   consumed, writeFailed, procExited>>

\* A rel_fatal! that does not wait for its send: it exits also while the
\* send is blocked on a full buffer.
FatalExitEarly(h) ==
    /\ UNCHANGED <<netVars, hLevel, queuedAtDrop>>
    /\ ~procExited
    /\ \/ hState[h] = "exiting"
       \/ hState[h] = "blocked" /\ hPending[h].level = Fatal
    /\ procExited' = TRUE
    /\ UNCHANGED <<target, workerLevel, hState, hSent, hPending, queue,
                   workerPc, workerMsg, sink, consumed, writeFailed>>

\* rel_fatal!, after the send: sleep 1000 ms, then std::process::exit(1).
FatalExit(h) ==
    /\ UNCHANGED <<netVars, hLevel, queuedAtDrop>>
    /\ ~procExited
    /\ hState[h] = "exiting"
    /\ procExited' = TRUE
    /\ UNCHANGED <<target, workerLevel, hState, hSent, hPending, queue,
                   workerPc, workerMsg, sink, consumed, writeFailed>>

\* derive(Clone) on Logger (lib.rs:77): the clone holds a Sender of the same
\* channel.
CloneLogger(h, c) ==
    /\ UNCHANGED <<netVars, queuedAtDrop>>
    /\ ~procExited
    /\ hState[h] = "idle"
    /\ hState[c] = "none"
    /\ \A k \in Handles : k < c => hState[k] # "none"
    /\ hState' = [hState EXCEPT ![c] = "idle"]
    /\ hLevel' = [hLevel EXCEPT ![c] = hLevel[h]]
    /\ UNCHANGED <<target, workerLevel, hSent, hPending, queue, workerPc,
                   workerMsg, sink, consumed, writeFailed, procExited>>

\* A handle goes out of scope: its Sender is dropped.
DropLogger(h) ==
    /\ UNCHANGED <<netVars, hLevel>>
    /\ ~procExited
    /\ hState[h] = "idle"
    /\ hState' = [hState EXCEPT ![h] = "dropped"]
    /\ queuedAtDrop' = IF \A k \in Handles \ {h} :
                              hState[k] \in {"none", "dropped"}
                       THEN queue
                       ELSE queuedAtDrop
    /\ UNCHANGED <<target, workerLevel, hSent, hPending, queue, workerPc,
                   workerMsg, sink, consumed, writeFailed, procExited>>

\* A set_level that also moves the threshold the worker filters with.
SetLevelMovesThreshold(h, new_level) ==
    /\ UNCHANGED <<netVars, queuedAtDrop>>
    /\ ~procExited
    /\ hState[h] = "idle"
    /\ hLevel' = [hLevel EXCEPT ![h] = new_level]
    /\ workerLevel' = new_level
    /\ UNCHANGED <<target, hState, hSent, hPending, queue, workerPc,
                   workerMsg, sink, consumed, writeFailed, procExited>>

\* Logger::set_level (lib.rs:198-200): self.level = new_level.
SetLevel(h, new_level) ==
    /\ UNCHANGED <<netVars, queuedAtDrop>>
    /\ ~procExited
    /\ hState[h] = "idle"
    /\ hLevel' = [hLevel EXCEPT ![h] = new_level]
    /\ UNCHANGED <<target, workerLevel, hState, hSent, hPending, queue,
                   workerPc, workerMsg, sink, consumed, writeFailed,
                   procExited>>

\* The file worker's first step (lib.rs:160-161):
\* File::create("log.txt").expect(..) panics the worker when it fails.
WorkerOpenFile(ok) ==
    /\ UNCHANGED <<netVars, hLevel, queuedAtDrop>>
    /\ ~procExited
    /\ workerPc = "start"
    /\ workerPc' = IF ok THEN "recv" ELSE "panicked"
    /\ UNCHANGED <<target, workerLevel, hState, hSent, hPending, queue,
                   workerMsg, sink, consumed, writeFailed, procExited>>

\* A recv that reports the disconnection as soon as every Sender was
\* dropped, whatever the buffer still holds.
WorkerRecvNoDrain ==
    /\ UNCHANGED <<netVars, hLevel, queuedAtDrop>>
    /\ ~procExited
    /\ workerPc = "recv"
    /\ queue # <<>> \/ SendersDropped
    /\ IF ~SendersDropped
       THEN /\ workerMsg' = DequeueMsg(queue)
            /\ queue' = DequeueRest(queue)
            /\ consumed' = Append(consumed, DequeueMsg(queue))
            /\ workerPc' = "render"
       ELSE /\ workerPc' = "stopped"
            /\ UNCHANGED <<workerMsg, queue, consumed>>
    /\ UNCHANGED <<target, workerLevel, hState, hSent, hPending, sink,
                   writeFailed, procExited>>

\* receiver.recv() (lib.rs:97-100, 166-169): Ok(x) while the buffer holds a
\* message; Err, and the worker returns, once the buffer is empty and every
\* Sender was dropped; blocked otherwise.
WorkerRecv ==
    /\ UNCHANGED <<netVars, hLevel, queuedAtDrop>>
    /\ ~procExited
    /\ workerPc = "recv"
    /\ queue # <<>> \/ SendersDropped
    /\ IF queue # <<>>
       THEN /\ workerMsg' = DequeueMsg(queue)
            /\ queue' = DequeueRest(queue)
            /\ consumed' = Append(consumed, DequeueMsg(queue))
            /\ workerPc' = "render"
       ELSE /\ workerPc' = "stopped"
            /\ UNCHANGED <<workerMsg, queue, consumed>>
    /\ UNCHANGED <<target, workerLevel, hState, hSent, hPending, sink,
                   writeFailed, procExited>>

\* The rest of the loop body (lib.rs:103-156, 172-185): filter, then println!
\* or writeln!; a writeln! error makes the file worker return.
WorkerRender(ok) ==
    /\ UNCHANGED <<netVars, hLevel, queuedAtDrop>>
    /\ ~procExited
    /\ workerPc = "render"
    /\ IF Passes(workerMsg, workerLevel)
       THEN IF ok
            THEN /\ sink' = Append(sink, FormatLine(workerMsg, target))
                 /\ workerPc' = "recv"
                 /\ UNCHANGED writeFailed
            ELSE /\ writeFailed' = Append(writeFailed, workerMsg)
                 /\ workerPc' = "stopped"
                 /\ UNCHANGED sink
       ELSE /\ workerPc' = "recv"
            /\ UNCHANGED <<sink, writeFailed>>
    /\ workerMsg' = NoMessage
    /\ UNCHANGED <<target, workerLevel, hState, hSent, hPending, queue,
                   consumed, procExited>>


(***************************************************************************)
(* The wire codec v1 (src/src/protocol.rs).  A buffer is a sequence of     *)
(* bytes, a String the sequence of its UTF-8 bytes.                        *)
(***************************************************************************)
\* A header length that leaves out the two bytes of file_name_len.
HeaderLenWithoutFileNameLen == 22 - 2

\* Size of the protocol header without the file name (protocol.rs:93).
HEADER_LEN_V1 == 22

Byte == 0..255

\* Rust's `as u8` and `as u16` on an integer: the low bits.
AsU8(x) == x % 256
AsU16(x) == x % 65536

\* A 16-bit writer that puts the low byte first.
LittleEndian16(x) == <<x % 256, (x \div 256) % 256>>

\* write_u16::<NetworkEndian> and write_u32::<NetworkEndian>.
WriteU16(x) == <<(x \div 256) % 256, x % 256>>
WriteU32(x) == <<(x \div 16777216) % 256, (x \div 65536) % 256,
                 (x \div 256) % 256, x % 256>>

\* read_u16::<NetworkEndian> and read_u32::<NetworkEndian> at offset `at`
\* (0-based) of buffer b.
ReadU8(b, at) == b[at + 1]
ReadU16(b, at) == b[at + 1] * 256 + b[at + 2]
ReadU32(b, at) == b[at + 1] * 16777216 + b[at + 2] * 65536
                    + b[at + 3] * 256 + b[at + 4]

\* Level::try_from(u8) (derive(TryFromPrimitive), protocol.rs:11-24): Ok for
\* the five discriminants.
LevelTryFromIsOk(b) == b \in Level

\* String::from_utf8: whether the bytes are well-formed UTF-8.
IsContinuation(c) == c \in 128..191

RECURSIVE IsUtf8(_)
IsUtf8(b) ==
    IF b = <<>> THEN TRUE
    ELSE LET c == b[1]
             n == Len(b)
         IN  IF c < 128 THEN IsUtf8(SubSeq(b, 2, n))
             ELSE IF c \in 194..223
             THEN n >= 2 /\ IsContinuation(b[2]) /\ IsUtf8(SubSeq(b, 3, n))
             ELSE IF c \in 224..239
             THEN /\ n >= 3
                  /\ b[2] \in (IF c = 224 THEN 160..191
                               ELSE IF c = 237 THEN 128..159 ELSE 128..191)
                  /\ IsContinuation(b[3])
                  /\ IsUtf8(SubSeq(b, 4, n))
             ELSE IF c \in 240..244
             THEN /\ n >= 4
                  /\ b[2] \in (IF c = 240 THEN 144..191
                               ELSE IF c = 244 THEN 128..143 ELSE 128..191)
                  /\ IsContinuation(b[3])
                  /\ IsContinuation(b[4])
                  /\ IsUtf8(SubSeq(b, 5, n))
             ELSE FALSE

\* chrono: the calendar check behind with_ymd_and_hms(..).earliest() and
\* with_nanosecond (protocol.rs:198-208).  Local time is taken to have no
\* gaps at the instants of the model.
IsLeapYear(y) == (y % 4 = 0 /\ y % 100 # 0) \/ y % 400 = 0

DaysInMonth(y, m) == IF m = 2 THEN (IF IsLeapYear(y) THEN 29 ELSE 28)
                     ELSE IF m \in {4, 6, 9, 11} THEN 30 ELSE 31

WithYmdAndHmsIsSome(y, mo, d, h, mi, s) ==
    /\ mo \in 1..12
    /\ d >= 1 /\ d <= DaysInMonth(y, mo)
    /\ h <= 23 /\ mi <= 59 /\ s <= 59

WithNanosecondIsSome(ns) == ns < 2000000000

\* encode_header_v1 (protocol.rs:156-177) on a slice of `room` bytes: the
\* writes of the fixed fields (22 bytes), which return Err when the slice
\* runs out, then copy_from_slice of the file name into what the writes
\* have left of the slice, which panics unless the lengths agree.
EncodeHeaderV1(message, message_type, room) ==
    LET fixed ==
            <<1, message_type>>
            \o WriteU16(1)
            \o WriteU16(AsU16(message.timestamp.year))
            \o <<AsU8(message.timestamp.month),
                 AsU8(message.timestamp.day),
                 AsU8(message.timestamp.hour),
                 AsU8(message.timestamp.minute),
                 AsU8(message.timestamp.second),
                 AsU8(message.level)>>
            \o WriteU32(message.timestamp.nanosecond)
            \o WriteU32(message.line)
            \o WriteU16(AsU16(Len(message.file)))
    IN  IF room < Len(fixed)
        THEN [outcome |-> "err", bytes |-> <<>>]
        ELSE IF room - Len(fixed) # Len(message.file)
        THEN [outcome |-> "panic", bytes |-> <<>>]
        ELSE [outcome |-> "ok", bytes |-> fixed \o message.file]

\* send_message_v1 (protocol.rs:109-139) up to socket.send_to: the buffer it
\* builds.  A message with a value is a T2 message: todo!() panics.
EncodeMessageV1(message) ==
    IF message.value # "None"
    THEN [outcome |-> "panic", bytes |-> <<>>]
    ELSE LET size == HEADER_LEN_V1 + Len(message.file) + 2 + Len(message.text)
             header == EncodeHeaderV1(message, 1,
                                      HEADER_LEN_V1 + Len(message.file))
             payloadRoom == size - (HEADER_LEN_V1 + Len(message.file))
         IN  IF header.outcome # "ok" THEN header
             ELSE IF payloadRoom - 2 # Len(message.text)
             THEN [outcome |-> "panic", bytes |-> <<>>]
             ELSE [outcome |-> "ok",
                   bytes |-> header.bytes
                             \o WriteU16(AsU16(Len(message.text)))
                             \o message.text]

NoHeader == [protocol_version |-> 0, message_type |-> 0, message_count |-> 0,
             timestamp_year |-> 0, timestamp_month |-> 0, timestamp_day |-> 0,
             timestamp_hour |-> 0, timestamp_minute |-> 0,
             timestamp_second |-> 0, level |-> 0, timestamp_nanosecond |-> 0,
             line |-> 0, file_name_len |-> 0, file |-> <<>>]

\* decode_header_v1 (protocol.rs:220-246): None for a buffer shorter than
\* the fixed header; the slice buffer[..file_name_len] panics when fewer
\* bytes are left; None when the file name is not UTF-8.
DecodeHeaderV1(buffer) ==
    IF Len(buffer) < HEADER_LEN_V1
    THEN [outcome |-> "none", header |-> NoHeader]
    ELSE LET len == ReadU16(buffer, 20)
             h == [protocol_version     |-> ReadU8(buffer, 0),
                   message_type         |-> ReadU8(buffer, 1),
                   message_count        |-> ReadU16(buffer, 2),
                   timestamp_year       |-> ReadU16(buffer, 4),
                   timestamp_month      |-> ReadU8(buffer, 6),
                   timestamp_day        |-> ReadU8(buffer, 7),
                   timestamp_hour       |-> ReadU8(buffer, 8),
                   timestamp_minute     |-> ReadU8(buffer, 9),
                   timestamp_second     |-> ReadU8(buffer, 10),
                   level                |-> ReadU8(buffer, 11),
                   timestamp_nanosecond |-> ReadU32(buffer, 12),
                   line                 |-> ReadU32(buffer, 16),
                   file_name_len        |-> len,
                   file                 |-> <<>>]
         IN  IF len > Len(buffer) - HEADER_LEN_V1
             THEN [outcome |-> "panic", header |-> NoHeader]
             ELSE LET name == SubSeq(buffer, HEADER_LEN_V1 + 1,
                                     HEADER_LEN_V1 + len)
                  IN  IF ~IsUtf8(name)
                      THEN [outcome |-> "none", header |-> NoHeader]
                      ELSE [outcome |-> "some",
                            header |-> [h EXCEPT !.file = name]]

\* A header check that lets every header through.
HeaderRejectedNever(h) == FALSE

\* The validation of the decoded header (protocol.rs:186-191).
HeaderRejected(h) ==
    \/ h.protocol_version # 1
    \/ h.message_count = 0
    \/ LevelTryFromIsOk(h.level)

NoTimestamp == [year |-> 0, month |-> 0, day |-> 0, hour |-> 0, minute |-> 0,
                second |-> 0, nanosecond |-> 0]

NoNetMessage == [timestamp |-> NoTimestamp, level |-> 0, text |-> <<>>,
                 value |-> "None", file |-> <<>>, line |-> 0,
                 sender |-> "None"]

\* receive_message_v1 (protocol.rs:181-218) on a datagram read from the
\* socket: Some(message), None, or a panic.
ReceiveMessageV1(buffer, from) ==
    LET decoded == DecodeHeaderV1(buffer)
        h == decoded.header
        none == [outcome |-> "none", message |-> NoNetMessage]
        panic == [outcome |-> "panic", message |-> NoNetMessage]
    IN  IF decoded.outcome = "panic" THEN panic
        ELSE IF decoded.outcome = "none" THEN none
        ELSE IF HeaderRejected(h) THEN none
        ELSE IF h.message_type = 2 THEN panic
        ELSE IF h.message_type = 1
        THEN IF ~WithYmdAndHmsIsSome(h.timestamp_year, h.timestamp_month,
                                     h.timestamp_day, h.timestamp_hour,
                                     h.timestamp_minute, h.timestamp_second)
             THEN none
             ELSE IF ~WithNanosecondIsSome(h.timestamp_nanosecond) THEN none
             ELSE IF ~LevelTryFromIsOk(h.level) THEN none
             ELSE [outcome |-> "some",
                   message |-> [timestamp |->
                                    [year       |-> h.timestamp_year,
                                     month      |-> h.timestamp_month,
                                     day        |-> h.timestamp_day,
                                     hour       |-> h.timestamp_hour,
                                     minute     |-> h.timestamp_minute,
                                     second     |-> h.timestamp_second,
                                     nanosecond |-> h.timestamp_nanosecond],
                                level  |-> h.level,
                                text   |-> <<>>,
                                value  |-> "None",
                                file   |-> h.file,
                                line   |-> h.line,
                                sender |-> from]]
        ELSE none

(***************************************************************************)
(* The inputs of the codec and of the receiver.                            *)
(***************************************************************************)
\* Timestamps a message is stamped with.
Timestamps ==
    {[year |-> 2024, month |-> 1, day |-> 1, hour |-> 0, minute |-> 0,
      second |-> 0, nanosecond |-> 0],
     [year |-> 2023, month |-> 12, day |-> 31, hour |-> 23, minute |-> 59,
      second |-> 59, nanosecond |-> 999999999]}

\* File names and texts: "", "a", "é.rs"; "", "hi".
FileNames == {<<>>, <<97>>, <<195, 169, 46, 114, 115>>}
Texts == {<<>>, <<104, 105>>}
\* Line numbers (u32); 16909060 is 0x01020304, four different bytes.
Lines == {42, 16909060}

\* The T1 message with file "disk.rs", line 42, text "disk nearly full" and
\* level Warning.
DiskExample ==
    [timestamp |-> [year |-> 2024, month |-> 1, day |-> 1, hour |-> 0,
                    minute |-> 0, second |-> 0, nanosecond |-> 0],
     level |-> Warning,
     text |-> <<100, 105, 115, 107, 32, 110, 101, 97, 114, 108, 121, 32,
                102, 117, 108, 108>>,
     value |-> "None",
     file |-> <<100, 105, 115, 107, 46, 114, 115>>,
     line |-> 42, sender |-> "None"]

\* The messages handed to send_message_v1 (protocol.rs:43-58): the T1
\* messages (value None), some T2 messages (value Some(..)), and the
\* example.
NetMessages ==
    [timestamp : Timestamps, level : Level, text : Texts, value : {"None"},
     file : FileNames, line : Lines, sender : {"None"}]
    \cup [timestamp : Timestamps, level : Level, text : {<<104, 105>>},
          value : {"Some"}, file : {<<97>>}, line : {42}, sender : {"None"}]
    \cup {DiskExample}

\* A datagram with the given header fields, followed by `rest`.
MakeDatagram(f) ==
    <<f.version, f.type>> \o WriteU16(f.count) \o WriteU16(f.ts.year)
    \o <<f.ts.month, f.ts.day, f.ts.hour, f.ts.minute, f.ts.second, f.level>>
    \o WriteU32(f.ts.nanosecond) \o WriteU32(f.line) \o WriteU16(f.fileLen)
    \o f.rest

\* Datagrams from anywhere.  BaseFields is a well-formed T1 datagram (file
\* "a", text "b"); a foreign datagram differs from it in at most
\* MaxDeviations of: version, type, count, date or nanosecond, level, file
\* name length, the bytes behind the header.  Some are shorter than the
\* header.
MaxDeviations == 2

ForeignTimestamps ==
    {[year |-> 2024, month |-> 1, day |-> 1, hour |-> 0, minute |-> 0,
      second |-> 0, nanosecond |-> 0],
     [year |-> 2024, month |-> 13, day |-> 1, hour |-> 0, minute |-> 0,
      second |-> 0, nanosecond |-> 0],
     [year |-> 2024, month |-> 1, day |-> 1, hour |-> 0, minute |-> 0,
      second |-> 0, nanosecond |-> 2000000000]}

BaseFields ==
    [version |-> 1, type |-> 1, count |-> 1,
     ts |-> [year |-> 2024, month |-> 1, day |-> 1, hour |-> 0, minute |-> 0,
             second |-> 0, nanosecond |-> 0],
     level |-> 2, line |-> 42, fileLen |-> 1, rest |-> <<97, 0, 1, 98>>]

ForeignFields ==
    [version : {1, 2}, type : {1, 2, 3}, count : {0, 1},
     ts : ForeignTimestamps, level : {0, 2, 4, 5}, line : {42},
     fileLen : {0, 1, 2, 5, 65535},
     rest : {<<>>, <<97>>, <<97, 0, 1, 98>>, <<255, 0, 0>>,
             <<195, 169, 0, 0>>}]

Deviations(f) ==
    Cardinality({k \in {"version", "type", "count", "ts", "level", "fileLen",
                        "rest"} : f[k] # BaseFields[k]})

ForeignDatagrams ==
    {MakeDatagram(f) : f \in {g \in ForeignFields :
                                Deviations(g) <= MaxDeviations}}
    \cup {<<>>, <<1>>, <<2>>,
          SubSeq(MakeDatagram(BaseFields), 1, HEADER_LEN_V1 - 1)}

NoDatagram == [bytes |-> <<>>, origin |-> NoNetMessage, from |-> "None"]

NoResult == [outcome |-> "none", message |-> NoNetMessage]

\* timeout is the argument of a next_message call: "None" or "Some".
NoOp == [op |-> "none", message |-> NoNetMessage, bytes |-> <<>>,
         outcome |-> "", decoded |-> NoResult, timeout |-> "None"]

(***************************************************************************)
(* The codec's caller, the network, and the receiver Logger                *)
(* (src/src/receiver.rs).                                                  *)
(***************************************************************************)
\* Messages with long strings: a file name and a text of each of these
\* lengths in bytes, around the u8 and the u16 limits.
LongLens == {0, 1, 7, 16, 255, 256, 65534, 65535, 65536, 65537}

LongString(n) == [i \in 1..n |-> 97]

LongMessage(fileLen, textLen) ==
    [timestamp |-> [year |-> 2024, month |-> 1, day |-> 1, hour |-> 0,
                    minute |-> 0, second |-> 0, nanosecond |-> 0],
     level |-> Warning, text |-> LongString(textLen), value |-> "None",
     file |-> LongString(fileLen), line |-> 42, sender |-> "None"]

\* What send_message_v1 hands to socket.send_to for a long message: the
\* buffer is stood for by its length and by the two length fields it
\* carries, file_name_len at offset 20 and text_length behind the file
\* name.
LongEncoded ==
    [fileLen \in LongLens, textLen \in LongLens |->
        LET enc == EncodeMessageV1(LongMessage(fileLen, textLen))
        IN  IF enc.outcome # "ok"
            THEN [outcome |-> enc.outcome, bufferLen |-> 0,
                  file_name_len |-> 0, text_length |-> 0]
            ELSE [outcome |-> "ok", bufferLen |-> Len(enc.bytes),
                  file_name_len |-> ReadU16(enc.bytes, 20),
                  text_length |-> ReadU16(enc.bytes,
                                          HEADER_LEN_V1 + fileLen)]]

\* The state when receiver::Logger::new has returned (receiver.rs:28-49).
ReceiverInit ==
    /\ encPc = "idle"
    /\ wire = NoDatagram
    /\ rxLevel \in Level
    /\ rxQueue = <<>>
    /\ pollPc = "poll"
    /\ pollPending = NoNetMessage
    /\ lastOp = NoOp
    /\ rxDropped = FALSE

\* No codec call and no receiver: the network part of a sender-only run.
NetIdle ==
    /\ encPc = "idle"
    /\ wire = NoDatagram
    /\ rxLevel = Trace
    /\ rxQueue = <<>>
    /\ pollPc = "poll"
    /\ pollPending = NoNetMessage
    /\ lastOp = NoOp
    /\ rxDropped = FALSE

\* No sender Logger: the sender part of a network-only run.
SenderIdle ==
    /\ target = "Console"
    /\ workerLevel = Trace
    /\ hState = [h \in Handles |-> IF h = 1 THEN "idle" ELSE "none"]
    /\ hSent = [h \in Handles |-> 0]
    /\ hPending = [h \in Handles |-> NoMessage]
    /\ queue = <<>>
    /\ workerPc = "recv"
    /\ workerMsg = NoMessage
    /\ sink = <<>>
    /\ consumed = <<>>
    /\ writeFailed = <<>>
    /\ procExited = FALSE
    /\ hLevel = [h \in Handles |-> Trace]
    /\ queuedAtDrop = <<>>

\* A channel that never reports the loss of its Sender.
RxSenderDroppedNever == FALSE

\* The polling thread's Sender is dropped when the thread unwinds.
RxSenderDropped == pollPc = "panicked"

\* The Receivers are held by the application's handles of the receiver
\* Logger (the original and its clones).
RxReceiversDropped == rxDropped

RxChannelFull == Len(rxQueue) >= MESSAGE_BUFFER_SIZE

\* The buffer send_message_v1 builds for each message of the model.
Encoded == [m \in NetMessages |-> EncodeMessageV1(m)]

\* send_message_v1 (protocol.rs:109-139): encode, then socket.send_to, whose
\* error is returned to the caller.
SendMessageV1(message, sendOk) ==
    /\ encPc = "idle"
    /\ wire = NoDatagram
    /\ LET enc == Encoded[message] IN
       /\ encPc' = IF enc.outcome = "panic" THEN "panicked" ELSE "idle"
       /\ wire' = IF enc.outcome = "ok" /\ sendOk
                  THEN [bytes |-> enc.bytes, origin |-> message,
                        from |-> "peer"]
                  ELSE NoDatagram
       /\ lastOp' = [op |-> "send", message |-> message, bytes |-> enc.bytes,
                     outcome |-> IF enc.outcome = "ok" /\ ~sendOk
                                 THEN "err" ELSE enc.outcome,
                     decoded |-> NoResult]
    /\ UNCHANGED <<rxLevel, rxQueue, pollPc, pollPending, rxDropped>>
    /\ UNCHANGED senderVars

\* send_message_v1 (protocol.rs:109-139) for a message with long strings.
\* The source puts no bound on the buffer it hands to socket.send_to, whose
\* result is the network stack's: `handed` tells that the encoder went
\* through to send_to, `emitted` that send_to took the datagram.
SendLongMessageV1(fileLen, textLen, sendOk) ==
    /\ encPc = "idle"
    /\ LET enc == LongEncoded[fileLen, textLen] IN
       /\ encPc' = IF enc.outcome = "panic" THEN "panicked" ELSE "idle"
       /\ lastOp' = [op |-> "sendlong", fileLen |-> fileLen,
                     textLen |-> textLen, encoded |-> enc,
                     handed |-> enc.outcome = "ok",
                     emitted |-> enc.outcome = "ok" /\ sendOk,
                     outcome |-> IF enc.outcome = "ok" /\ ~sendOk
                                 THEN "err" ELSE enc.outcome]
    /\ UNCHANGED <<wire, rxLevel, rxQueue, pollPc, pollPending, rxDropped>>
    /\ UNCHANGED senderVars

\* A datagram of some other origin reaches the socket.
ForeignDatagramArrives(d) ==
    /\ wire = NoDatagram
    /\ wire' = [bytes |-> d, origin |-> NoNetMessage, from |-> "stranger"]
    /\ lastOp' = [NoOp EXCEPT !.op = "arrive"]
    /\ UNCHANGED <<encPc, rxLevel, rxQueue, pollPc, pollPending, rxDropped>>
    /\ UNCHANGED senderVars

\* UDP loses the datagram.
DatagramLost ==
    /\ wire # NoDatagram
    /\ wire' = NoDatagram
    /\ lastOp' = [NoOp EXCEPT !.op = "lost"]
    /\ UNCHANGED <<encPc, rxLevel, rxQueue, pollPc, pollPending, rxDropped>>
    /\ UNCHANGED senderVars

\* One step of the polling thread (receiver.rs:34-43): read and decode a
\* datagram, filter by level, send into the channel (blocking while the
\* channel is full; Err, which expect turns into a panic, when every
\* Receiver was dropped); or the completion of a send that was blocked.
PollingThread ==
    /\ \/ pollPc = "poll" /\ wire # NoDatagram
       \/ pollPc = "blocked" /\ (~RxChannelFull \/ RxReceiversDropped)
    /\ IF pollPc = "blocked"
       THEN /\ rxQueue' = IF RxReceiversDropped THEN rxQueue
                          ELSE Append(rxQueue, pollPending)
            /\ pollPending' = NoNetMessage
            /\ pollPc' = IF RxReceiversDropped THEN "panicked" ELSE "poll"
            /\ lastOp' = [NoOp EXCEPT !.op = "wake"]
            /\ UNCHANGED wire
       ELSE LET r == ReceiveMessageV1(wire.bytes, wire.from)
                out == IF r.outcome = "panic" THEN "panicked"
                       ELSE IF r.outcome = "none" THEN "dropped"
                       ELSE IF ~(r.message.level >= rxLevel) THEN "dropped"
                       ELSE IF RxReceiversDropped THEN "panicked"
                       ELSE IF RxChannelFull THEN "blocked"
                       ELSE "forwarded"
            IN  /\ wire' = NoDatagram
                /\ pollPc' = IF out \in {"panicked", "blocked"} THEN out
                             ELSE "poll"
                /\ rxQueue' = IF out = "forwarded"
                              THEN Append(rxQueue, r.message) ELSE rxQueue
                /\ pollPending' = IF out = "blocked" THEN r.message
                                  ELSE NoNetMessage
                /\ lastOp' = [op |-> "poll", message |-> wire.origin,
                              bytes |-> wire.bytes, outcome |-> out,
                              decoded |-> r]
    /\ UNCHANGED <<encPc, rxLevel, rxDropped>>
    /\ UNCHANGED senderVars

\* Logger::next_message (receiver.rs:52-60): recv_timeout for Some(x), recv
\* for None, which blocks until a message is there or the channel is
\* disconnected.
NextMessage(timeout) ==
    /\ ~rxDropped
    /\ timeout = "Some" \/ rxQueue # <<>> \/ RxSenderDropped
    /\ IF rxQueue # <<>>
       THEN /\ rxQueue' = Tail(rxQueue)
            /\ lastOp' = [NoOp EXCEPT !.op = "pull", !.outcome = "message",
                                      !.timeout = timeout,
                                      !.decoded = [outcome |-> "some",
                                                   message |-> Head(rxQueue)]]
       ELSE /\ UNCHANGED rxQueue
            /\ lastOp' = [NoOp EXCEPT !.op = "pull", !.timeout = timeout,
                                      !.outcome = IF RxSenderDropped
                                                  THEN "disconnected"
                                                  ELSE "timeout"]
    /\ UNCHANGED <<encPc, wire, rxLevel, pollPc, pollPending, rxDropped>>
    /\ UNCHANGED senderVars

\* The application drops its last handle of the receiver Logger: the
\* Receivers are gone; the polling thread was spawned detached
\* (receiver.rs:34) and is told nothing.
DropReceiver ==
    /\ ~rxDropped
    /\ rxDropped' = TRUE
    /\ lastOp' = [NoOp EXCEPT !.op = "drop"]
    /\ UNCHANGED <<encPc, wire, rxLevel, rxQueue, pollPc, pollPending>>
    /\ UNCHANGED senderVars

Next ==
    \/ \E h \in Handles, l \in SentLevels : RelLog(h, l)
    \/ \E h \in Handles : SendWake(h)
    \/ \E h \in Handles : FatalExit(h)
    \/ \E h, c \in Handles : CloneLogger(h, c)
    \/ \E h \in Handles : DropLogger(h)
    \/ \E ok \in BOOLEAN : WorkerOpenFile(ok)
    \/ WorkerRecv
    \/ \E ok \in (IF target = "File" THEN BOOLEAN ELSE {TRUE}) : WorkerRender(ok)

\* The thresholds of Spec are the levels its handles log at: against those
\* messages Information filters as Warning does, and Error as Fatal does.
Init == SenderInit(SentLevels) /\ NetIdle

Spec == Init /\ [][Next]_vars

\* The worker is a thread of its own (thread::spawn, lib.rs:95, 158): the
\* operating system's scheduler lets it take a step that stays possible.
WorkerFairness ==
    /\ WF_vars(\E ok \in BOOLEAN : WorkerOpenFile(ok))
    /\ WF_vars(WorkerRecv)
    /\ WF_vars(\E ok \in (IF target = "File" THEN BOOLEAN ELSE {TRUE}) :
                   WorkerRender(ok))

\* The life of a logger that is dropped rather than ended by rel_fatal!:
\* the handles log with rel_trace! and rel_warn!, are cloned and dropped.
LifeNext ==
    \/ \E h \in Handles, l \in SentLevels \ {Fatal} : RelLog(h, l)
    \/ \E h \in Handles : SendWake(h)
    \/ \E h, c \in Handles : CloneLogger(h, c)
    \/ \E h \in Handles : DropLogger(h)
    \/ \E ok \in BOOLEAN : WorkerOpenFile(ok)
    \/ WorkerRecv
    \/ \E ok \in (IF target = "File" THEN BOOLEAN ELSE {TRUE}) : WorkerRender(ok)

LifeInit == SenderInit(SentLevels) /\ NetIdle

LifeSpec == LifeInit /\ [][LifeNext]_vars /\ WorkerFairness

\* The original handle alone, logging at every level.
FilterNext ==
    \/ \E l \in Level : RelLog(1, l)
    \/ SendWake(1)
    \/ FatalExit(1)
    \/ DropLogger(1)
    \/ \E ok \in BOOLEAN : WorkerOpenFile(ok)
    \/ WorkerRecv
    \/ \E ok \in (IF target = "File" THEN BOOLEAN ELSE {TRUE}) : WorkerRender(ok)

FilterInit == SenderInit(Level) /\ NetIdle

FilterSpec == FilterInit /\ [][FilterNext]_vars

\* The levels set_level is called with: the lowest and the highest, one at
\* or below and one at or above every threshold.
NewLevels == {Trace, Fatal}

\* The original handle logging at every level, and set_level called on it
\* and on a clone of it.
LevelNext ==
    \/ \E l \in Level : RelLog(1, l)
    \/ \E h \in {1, 2}, l \in NewLevels : SetLevel(h, l)
    \/ SendWake(1)
    \/ FatalExit(1)
    \/ CloneLogger(1, 2)
    \/ \E h \in {1, 2} : DropLogger(h)
    \/ \E ok \in BOOLEAN : WorkerOpenFile(ok)
    \/ WorkerRecv
    \/ \E ok \in (IF target = "File" THEN BOOLEAN ELSE {TRUE}) : WorkerRender(ok)

LevelInit == SenderInit(Level) /\ NetIdle

LevelSpec == LevelInit /\ [][LevelNext]_vars

\* Calls of send_message_v1 with long strings.
LongNext ==
    \E fileLen \in LongLens, textLen \in LongLens, sendOk \in BOOLEAN :
        SendLongMessageV1(fileLen, textLen, sendOk)

LongInit == ReceiverInit /\ SenderIdle

LongSpec == LongInit /\ [][LongNext]_vars

NetNext ==
    \/ \E m \in NetMessages, sendOk \in BOOLEAN : SendMessageV1(m, sendOk)
    \/ \E d \in ForeignDatagrams : ForeignDatagramArrives(d)
    \/ DatagramLost
    \/ PollingThread
    \/ \E timeout \in {"None", "Some"} : NextMessage(timeout)
    \/ DropReceiver

NetInit == ReceiverInit /\ SenderIdle

NetSpec == NetInit /\ [][NetNext]_vars

(***************************************************************************)
(* Helpers of the properties.                                              *)
(***************************************************************************)
\* The message a rendered line came from.
LineMessage(ln) == [level |-> ln.level, handle |-> ln.handle, seq |-> ln.seq]

\* The messages the worker has received and finished with.
Processed == IF workerPc = "render"
             THEN SubSeq(consumed, 1, Len(consumed) - 1)
             ELSE consumed

AtOrAboveThreshold(m) == m.level >= workerLevel

Range(q) == {q[i] : i \in 1..Len(q)}

\* The message of handle h's k-th macro call is held in exactly this many
\* places: the buffer, the worker's hands (or past them), a blocked send.
Places(h, k) ==
    Cardinality({i \in 1..Len(queue) : queue[i].handle = h /\ queue[i].seq = k})
  + Cardinality({i \in 1..Len(consumed) :
                    consumed[i].handle = h /\ consumed[i].seq = k})
  + (IF hState[h] = "blocked" /\ hPending[h].handle = h /\ hPending[h].seq = k
     THEN 1 ELSE 0)

(***************************************************************************)
(* C1.  With threshold L, a message of level M is rendered on the sink if  *)
(* and only if M >= L: the lines on the sink are, in order, exactly the    *)
(* messages with M >= L among those the worker has received and finished   *)
(* with (a line whose writeln! failed, which ends the file worker, is the  *)
(* one exception); every message with M < L is consumed from the queue and *)
(* leaves no line.                                                         *)
(***************************************************************************)
C1_LevelFilter ==
    /\ [i \in 1..Len(sink) |-> LineMessage(sink[i])] \o writeFailed
         = SelectSeq(Processed, AtOrAboveThreshold)
    /\ \A i \in 1..Len(sink) : sink[i].level >= workerLevel
    /\ \A i \in 1..Len(Processed) :
          Processed[i].level < workerLevel
             => /\ Processed[i] \notin Range(queue)
                /\ \A j \in 1..Len(sink) : LineMessage(sink[j]) # Processed[i]

\* A message at the threshold was rendered and one just below it was
\* consumed without a line.
C1_Witness ==
    /\ workerPc = "recv"
    /\ \E i \in 1..Len(sink) : sink[i].level = workerLevel
    /\ \E i \in 1..Len(consumed) : consumed[i].level = workerLevel - 1
    /\ Len(sink) < Len(consumed)

(***************************************************************************)
(* C2.  Per-producer FIFO: the lines on the sink that come from one handle *)
(* appear in the order in which that handle logged them, whatever the      *)
(* other handles and the worker do in between.                             *)
(***************************************************************************)
C2_PerProducerFifo ==
    \A i, j \in 1..Len(sink) :
        (i < j /\ sink[i].handle = sink[j].handle) => sink[i].seq < sink[j].seq

\* Two lines of one handle with a line of another handle between them.
C2_Witness ==
    \E i, j, k \in 1..Len(sink) :
        /\ i < j /\ j < k
        /\ sink[i].handle = sink[k].handle
        /\ sink[j].handle # sink[i].handle

(***************************************************************************)
(* C3.  Backpressure.  The buffer never holds more than its capacity; a    *)
(* send made while the buffer is full and the worker lives blocks its      *)
(* caller and leaves the buffer as it is; a blocked send keeps its message *)
(* (every message logged is in exactly one place: the buffer, the worker,  *)
(* or its blocked send) and is enabled as soon as the buffer has a free    *)
(* slot; when it completes, its message is at the back of the buffer.      *)
(***************************************************************************)
C3_BackpressureState ==
    /\ Len(queue) <= MESSAGE_BUFFER_SIZE
    /\ \A h \in Handles :
          /\ hState[h] = "blocked" =>
                /\ hPending[h].handle = h
                /\ hPending[h].seq = hSent[h]
                /\ (Len(queue) < MESSAGE_BUFFER_SIZE /\ ~procExited)
                       => ENABLED SendWake(h)
          /\ \A k \in 1..hSent[h] :
                Places(h, k) = IF hState[h] = "panicked" /\ k = hSent[h]
                               THEN 0 ELSE 1

C3_BackpressureStep ==
    \A h \in Handles :
        /\ (/\ hSent'[h] = hSent[h] + 1
            /\ Len(queue) = MESSAGE_BUFFER_SIZE
            /\ workerPc \notin {"stopped", "panicked"})
              => (hState'[h] = "blocked" /\ queue' = queue)
        /\ (hState[h] = "blocked" /\ hState'[h] # "blocked")
              => \/ /\ workerPc \in {"stopped", "panicked"}
                    /\ hState'[h] = "panicked"
                 \/ /\ Len(queue) < MESSAGE_BUFFER_SIZE
                    /\ queue' = Append(queue, hPending[h])

C3_Backpressure == []C3_BackpressureState /\ [][C3_BackpressureStep]_vars

\* The worker has received a message and the send that was blocked on the
\* full buffer has completed: its message is in the buffer.
C3_Witness ==
    \E h \in Handles :
        /\ hState[h] = "idle"
        /\ hSent[h] >= 1
        /\ TotalSent = MESSAGE_BUFFER_SIZE + 1
        /\ Len(consumed) = 1
        /\ Len(queue) = MESSAGE_BUFFER_SIZE
        /\ queue[Len(queue)].handle = h
        /\ queue[Len(queue)].seq = hSent[h]
        /\ workerPc = "render"

(***************************************************************************)
(* C4.  A send through a logging macro after the worker has terminated     *)
(* fails with an error returned to the caller: no calling thread panics.   *)
(***************************************************************************)
C4_SendAfterWorkerDeathReturnsError ==
    \A h \in Handles : hState[h] # "panicked"

(***************************************************************************)
(* Helpers of the codec's and the receiver's properties.                   *)
(***************************************************************************)
\* The header fields of a datagram, read at the offsets of the wire format's
\* table (0-based offsets; sequences are 1-based).
VersionByte(b) == b[1]
TypeByte(b) == b[2]
CountField(b) == b[3] * 256 + b[4]
LevelByte(b) == b[12]
FileLenField(b) == b[21] * 256 + b[22]

\* A well-formed T1 datagram: version 1, type 1, at least one message, a
\* level byte of a severity, a calendar date, lengths that agree with the
\* bytes present, UTF-8 file name and text.
WellFormedT1(b) ==
    /\ Len(b) >= 24
    /\ VersionByte(b) = 1
    /\ TypeByte(b) = 1
    /\ CountField(b) >= 1
    /\ LevelByte(b) \in 0..4
    /\ b[7] \in 1..12 /\ b[8] \in 1..28 /\ b[9] <= 23 /\ b[10] <= 59
    /\ b[11] <= 59
    /\ b[13] < 119
    /\ Len(b) >= 24 + FileLenField(b)
    /\ LET n == FileLenField(b)
           t == b[23 + n] * 256 + b[24 + n]
       IN  /\ Len(b) = 24 + n + t
           /\ IsUtf8(SubSeq(b, 23, 22 + n))
           /\ IsUtf8(SubSeq(b, 25 + n, Len(b)))

\* A datagram decode must reject: wrong version, no message, or a level
\* byte that is no severity.
MustReject(b) ==
    \/ Len(b) >= 1 /\ VersionByte(b) # 1
    \/ Len(b) >= 4 /\ CountField(b) = 0
    \/ Len(b) >= 12 /\ LevelByte(b) \notin 0..4

\* The polling thread reads the datagram on the socket in this step.
PollStep ==
    /\ pollPc = "poll"
    /\ wire # NoDatagram
    /\ wire' = NoDatagram
    /\ lastOp'.op = "poll"

(***************************************************************************)
(* C5.  Round trip: the datagram the encoder builds for a T1 message       *)
(* decodes to a message with the same level, file, line, text and          *)
(* timestamp.                                                              *)
(***************************************************************************)
C5_RoundTrip ==
    (lastOp.op = "poll" /\ lastOp.message # NoNetMessage)
       => /\ lastOp.decoded.outcome = "some"
          /\ lastOp.decoded.message.level = lastOp.message.level
          /\ lastOp.decoded.message.file = lastOp.message.file
          /\ lastOp.decoded.message.line = lastOp.message.line
          /\ lastOp.decoded.message.text = lastOp.message.text
          /\ lastOp.decoded.message.timestamp = lastOp.message.timestamp

(***************************************************************************)
(* C6.  A well-formed T1 datagram whose level is at or above the receiver  *)
(* Logger's threshold is accepted by decode and forwarded into the         *)
(* receiver's queue (from where next_message returns it).                  *)
(***************************************************************************)
C6_WellFormedIsForwarded ==
    (/\ lastOp.op = "poll"
     /\ WellFormedT1(lastOp.bytes)
     /\ LevelByte(lastOp.bytes) >= rxLevel)
       => /\ lastOp.decoded.outcome = "some"
          /\ lastOp.outcome \in {"forwarded", "blocked"}

(***************************************************************************)
(* C7.  Decode rejects every datagram whose protocol_version is not 1, or  *)
(* whose message_count is 0, or whose level byte is outside 0..4:          *)
(* receive_message_v1 yields no message for it and the polling thread      *)
(* forwards nothing (the queue and the pending send stay as they were).    *)
(***************************************************************************)
C7_RejectStep ==
    (PollStep /\ MustReject(wire.bytes))
       => /\ lastOp'.decoded.outcome # "some"
          /\ lastOp'.outcome \notin {"forwarded", "blocked"}
          /\ rxQueue' = rxQueue
          /\ pollPending' = pollPending

C7_DecodeRejects == [][C7_RejectStep]_vars

\* The polling thread has read and dropped a datagram that is well-formed
\* except for its version byte, and goes on polling.
C7_Witness ==
    /\ lastOp.op = "poll"
    /\ Len(lastOp.bytes) >= 24
    /\ VersionByte(lastOp.bytes) = 2
    /\ WellFormedT1([lastOp.bytes EXCEPT ![1] = 1])
    /\ LevelByte(lastOp.bytes) >= rxLevel
    /\ lastOp.outcome = "dropped"
    /\ pollPc = "poll"
    /\ rxQueue = <<>>

(***************************************************************************)
(* C8.  No datagram, whatever its length and bytes, makes the polling      *)
(* thread panic or stop.                                                   *)
(***************************************************************************)
C8_PollingThreadSurvives == pollPc # "panicked"

(***************************************************************************)
(* C9.  send_message_v1 on a T2 message (value present) returns an error   *)
(* to its caller and sends no datagram; the caller does not panic.         *)
(***************************************************************************)
C9_T2ReturnsError ==
    (lastOp.op = "send" /\ lastOp.message.value # "None")
       => /\ lastOp.outcome = "err"
          /\ encPc = "idle"
          /\ wire = NoDatagram

C11_NoneBlocks ==
    ~rxDropped =>
        (ENABLED NextMessage("None") <=> (rxQueue # <<>> \/ pollPc = "panicked"))

C11_PullStep ==
    lastOp'.op = "pull" =>
        /\ lastOp'.timeout = "None" => lastOp'.outcome # "timeout"
        /\ rxQueue # <<>> =>
              /\ lastOp'.outcome = "message"
              /\ lastOp'.decoded.message = Head(rxQueue)
              /\ rxQueue' = Tail(rxQueue)
        /\ (rxQueue = <<>> /\ pollPc = "panicked") =>
              lastOp'.outcome = "disconnected"
        /\ (rxQueue = <<>> /\ pollPc # "panicked") =>
              /\ lastOp'.timeout = "Some"
              /\ lastOp'.outcome = "timeout"

C11_NextMessage == []C11_NoneBlocks /\ [][C11_PullStep]_vars

\* A call with Some(duration) on the empty channel of a polling thread that
\* has unwound returned the disconnected error.
C11_Witness ==
    /\ pollPc = "panicked"
    /\ rxQueue = <<>>
    /\ lastOp.op = "pull"
    /\ lastOp.timeout = "Some"
    /\ lastOp.outcome = "disconnected"

(***************************************************************************)
(* C12.  Construction fails immediately and synchronously: whenever the    *)
(* creation of the log file has failed, no worker thread was spawned and   *)
(* no logger was returned to the caller, so no producer handle exists.     *)
(* (In the model the failure of File::create is the step that takes the    *)
(* worker from "start" to "panicked".)                                     *)
(***************************************************************************)
C12_ConstructionFailsSynchronously ==
    workerPc = "panicked" => \A h \in Handles : hState[h] = "none"

(***************************************************************************)
(* C13.  The worker terminates when all producers are dropped.  A worker   *)
(* that has left its loop without a write failure (the console worker      *)
(* always) has seen every producer handle, the original and each clone,    *)
(* dropped: it does not exit while a handle exists.  And once every handle *)
(* has been dropped the worker eventually leaves its loop.                 *)
(***************************************************************************)
C13_StaysWhileHandleExists ==
    (workerPc = "stopped" /\ writeFailed = <<>>) =>
        \A h \in Handles : hState[h] \in {"none", "dropped"}

C13_EventuallyExits ==
    (\A h \in Handles : hState[h] \in {"none", "dropped"})
        ~> (workerPc \in {"stopped", "panicked"})

C13_WorkerTerminates == []C13_StaysWhileHandleExists /\ C13_EventuallyExits

\* The console worker has stopped after the original and a clone were
\* dropped, having received messages before.
C13_Witness ==
    /\ target = "Console"
    /\ workerPc = "stopped"
    /\ \A h \in Handles : hState[h] = "dropped"
    /\ consumed # <<>>

(***************************************************************************)
(* C14.  As claimed: no graceful drain.  When the last producer handle is  *)
(* dropped while messages are still queued, the worker leaves its loop     *)
(* without rendering them: no line on the sink of a stopped worker comes   *)
(* from a message that was queued when the last handle was dropped.        *)
(***************************************************************************)
C14_NoGracefulDrain ==
    workerPc = "stopped" =>
        \A i \in 1..Len(queuedAtDrop) : \A j \in 1..Len(sink) :
            LineMessage(sink[j]) # queuedAtDrop[i]

(***************************************************************************)
(* C14, amended.  The worker drains.  When the last producer handle is     *)
(* dropped while messages are still queued, recv hands the worker every    *)
(* one of them before it reports the disconnection: a worker that has left *)
(* its loop without a write failure has left the queue empty, has received *)
(* every message that was queued at the drop, and has rendered each of     *)
(* them that passes the filter.                                            *)
(***************************************************************************)
C14_DrainsBeforeExit ==
    (workerPc = "stopped" /\ writeFailed = <<>>) =>
        /\ queue = <<>>
        /\ \A i \in 1..Len(queuedAtDrop) :
              /\ queuedAtDrop[i] \in Range(consumed)
              /\ queuedAtDrop[i].level >= workerLevel =>
                    \E j \in 1..Len(sink) :
                        LineMessage(sink[j]) = queuedAtDrop[i]

\* The last handle was dropped with a full buffer, and the stopped worker
\* has rendered a message of that buffer.
C14_Witness ==
    /\ workerPc = "stopped"
    /\ writeFailed = <<>>
    /\ Len(queuedAtDrop) = MESSAGE_BUFFER_SIZE
    /\ \E j \in 1..Len(sink) : LineMessage(sink[j]) = queuedAtDrop[1]

C16_ExitAfterEnqueue ==
    /\ procExited =>
          \E h \in Handles :
              /\ hState[h] = "exiting"
              /\ hPending[h] = NoMessage
              /\ [level |-> Fatal, handle |-> h, seq |-> hSent[h]]
                    \in Range(queue) \cup Range(consumed)
    /\ \A h \in Handles :
          /\ hState[h] = "blocked" => ~ENABLED FatalExit(h)
          /\ hState[h] = "exiting" =>
                [level |-> Fatal, handle |-> h, seq |-> hSent[h]]
                    \in Range(queue) \cup Range(consumed)

\* A rel_fatal! call is blocked on the full queue: its message is not
\* enqueued yet and the process has not exited.
C16_Witness ==
    \E h \in Handles :
        /\ hState[h] = "blocked"
        /\ hPending[h].level = Fatal
        /\ Len(queue) = MESSAGE_BUFFER_SIZE
        /\ ~procExited

(***************************************************************************)
(* C17.  The worker's threshold is fixed at construction.  No step, and no *)
(* set_level in particular, changes the threshold the worker filters with, *)
(* which is the level Logger::new was given; a step that changes a         *)
(* handle's level field leaves the channel and the worker as they are; and *)
(* the worker renders the                                                  *)
(* message it holds if and only if the message's level is at or above that *)
(* threshold, whatever Logger::level() returns at the time.                *)
(***************************************************************************)
C17_Step ==
    /\ workerLevel' = workerLevel
    /\ hLevel' # hLevel =>
          UNCHANGED <<queue, workerPc, workerMsg, sink, consumed>>
    /\ (workerPc = "render" /\ workerPc' # "render") =>
          ((sink' # sink \/ writeFailed' # writeFailed)
              <=> workerMsg.level >= workerLevel)

C18_PollingThreadBoundToLogger ==
    (rxDropped /\ wire = NoDatagram) =>
        (pollPc \in {"stopped", "panicked"} \/ ENABLED PollingThread)

(***************************************************************************)
(* C19.  The encoder never emits a datagram whose length prefix disagrees  *)
(* with the bytes that follow.  In every datagram send_message_v1 emits,   *)
(* file_name_len is the number of file-name bytes and text_length the      *)
(* number of text bytes; and a message whose file name or text is longer   *)
(* than 65535 bytes is rejected by the encoder with an error: no buffer    *)
(* built from it is handed to the socket, let alone emitted.               *)
(***************************************************************************)
C19_LengthPrefixAgrees ==
    lastOp.op = "sendlong" =>
        /\ lastOp.emitted =>
              /\ lastOp.encoded.file_name_len = lastOp.fileLen
              /\ lastOp.encoded.text_length = lastOp.textLen
        /\ (lastOp.fileLen > 65535 \/ lastOp.textLen > 65535) =>
              /\ lastOp.outcome = "err"
              /\ ~lastOp.handed
              /\ ~lastOp.emitted

(***************************************************************************)
(* C20.  As claimed: encoding the T1 message with file "disk.rs", line 42, *)
(* text "disk nearly full" and level Warning produces a buffer of exactly  *)
(* 48 bytes.                                                               *)
(***************************************************************************)
C20_ExampleIs48Bytes ==
    (lastOp.op = "send" /\ lastOp.message = DiskExample) =>
        Len(lastOp.bytes) = 48

(***************************************************************************)
(* C20, amended.  Encoding that message produces a buffer of exactly 47    *)
(* bytes: the 22 header bytes, the 7 bytes of "disk.rs", the 2 bytes of    *)
(* text_length, and the 16 bytes of "disk nearly full"; the encoder        *)
(* neither fails nor panics on it.                                         *)
(***************************************************************************)
C20_ExampleIs47Bytes ==
    (lastOp.op = "send" /\ lastOp.message = DiskExample) =>
        /\ Encoded[DiskExample].outcome = "ok"
        /\ Len(lastOp.bytes) = 47
        /\ Len(lastOp.bytes) = HEADER_LEN_V1 + Len(DiskExample.file) + 2
                                + Len(DiskExample.text)
        /\ Len(DiskExample.file) = 7
        /\ Len(DiskExample.text) = 16
        /\ encPc = "idle"

\* The example was encoded and its datagram is on the wire.
C20_Witness ==
    /\ lastOp.op = "send"
    /\ lastOp.message = DiskExample
    /\ lastOp.outcome = "ok"
    /\ wire # NoDatagram
    /\ wire.bytes = lastOp.bytes

C22_Releasable ==
    \A h \in Handles :
        (/\ workerPc \in {"stopped", "panicked"}
         /\ hState[h] = "blocked"
         /\ ~procExited) => ENABLED SendWake(h)

C22_Step ==
    workerPc \in {"stopped", "panicked"} =>
        /\ queue' = queue
        /\ \A h \in Handles :
              /\ (hState[h] = "blocked" /\ hState'[h] # "blocked") =>
                    /\ hState'[h] = "panicked"
                    /\ hPending'[h] = NoMessage
              /\ hSent'[h] = hSent[h] + 1 =>
                    /\ hState'[h] = "panicked"
                    /\ hPending'[h] = NoMessage

C22_NotBlockedOnDeadSink == []C22_Releasable /\ [][C22_Step]_vars

\* The file worker has terminated on a write failure with a message still
\* in the queue, and a producer's send has ended in the channel-closed
\* failure.
C22_Witness ==
    /\ target = "File"
    /\ workerPc = "stopped"
    /\ writeFailed # <<>>
    /\ queue # <<>>
    /\ \E h \in Handles : hState[h] = "panicked" /\ hPending[h] = NoMessage

=============================================================================
